---- MODULE Spec2Model ----
(***************************************************************************)
(* Simulated-annealing placement engine of run.py.                         *)
(*                                                                         *)
(* Units and representations                                               *)
(*  - Costs are kept in HALF units: cost(p) below is twice the float the   *)
(*    source returns.  Every center coordinate is a multiple of 1/2 and    *)
(*    the penalty is an integer, so every float the source computes is a   *)
(*    small multiple of 1/2 and is exact in binary floating point.         *)
(*  - A temperature is a float of the form s * 2^e, kept as [s, e] with    *)
(*    s in {-1,0,1} and e <= 0.  Products of such floats are exact until   *)
(*    they fall below the smallest positive double 2^-1074, where they     *)
(*    round to zero.  math.exp is classified by the float it returns for   *)
(*    an argument that is a multiple of 1/2: it raises OverflowError from  *)
(*    710 on (twice the argument >= 1420), returns 0.0 from -745.5 down    *)
(*    (twice the magnitude >= 1491), 1.0 at 0, and a float strictly        *)
(*    between otherwise.                                                   *)
(*  - Placements are Python dicts: objects on a heap, named by reference,  *)
(*    so that aliasing (best = placement) and copying (placement.copy())   *)
(*    are visible.  Unreferenced dicts are reclaimed at once.              *)
(*  - The surface is scaled down from the source's 20 x 20.                *)
(***************************************************************************)
EXTENDS Integers, Sequences, FiniteSets, TLC

VARIABLES modules, nets, max_iter, T_start, cooling,
          pc, err, heap, placement, best, new_place,
          T, best_cost, cost_history, i, c_old, c_new, u,
          initial_cost, value

vars == <<modules, nets, max_iter, T_start, cooling,
          pc, err, heap, placement, best, new_place,
          T, best_cost, cost_history, i, c_old, c_new, u,
          initial_cost, value>>

(***************************************************************************)
(* Bounds of the model.                                                    *)
(***************************************************************************)
CHIP_W == 5
CHIP_H == 3
MaxIter == 2

(***************************************************************************)
(* Program constants.                                                      *)
(***************************************************************************)
Penalty == 10
MinExp == -1074
ExpOverflowTwice == 1420
ExpZeroTwice == 1491
ExpCap == 11
MaxFloatExp == 1024

Abs(n) == IF n < 0 THEN -n ELSE n

RECURSIVE Pow2(_)
Pow2(n) == IF n <= 0 THEN 1 ELSE 2 * Pow2(n - 1)

(***************************************************************************)
(* The catalog: sizes of the first modules of the source's table, in the   *)
(* table's order, and the nets among them.                                 *)
(***************************************************************************)
ModuleIds == <<"A", "B", "C">>

Sizes == [m \in {"A", "B", "C"} |->
            CASE m = "A" -> <<2, 3>>
              [] m = "B" -> <<3, 2>>
              [] m = "C" -> <<2, 2>>]

AllNets == << <<"A", "B">>, <<"A", "C">> >>

CatalogOf(ids) == [m \in ids |-> Sizes[m]]

NetsOf(ids) == SelectSeq(AllNets, LAMBDA n : n[1] \in ids /\ n[2] \in ids)

\* list(d.items()) / list(d.keys()): the keys of a dict in insertion order,
\* which is the catalog's order for every dict the program builds.
Keys(d) == SelectSeq(ModuleIds, LAMBDA k : k \in DOMAIN d)

(***************************************************************************)
(* random.randint(a, b): any integer of a..b.                              *)
(***************************************************************************)
RandInt(a, b) == a .. b

\* randint(0, CHIP_W): the width of the module is not subtracted.
XRange_NoWidth(m) == RandInt(0, CHIP_W)

XRange(m) == RandInt(0, CHIP_W - modules[m][1])

YRange(m) == RandInt(0, CHIP_H - modules[m][2])

\* The placements random_placement can return for the catalog mods.
random_placement(mods) ==
    { p \in [DOMAIN mods -> (0 .. CHIP_W) \X (0 .. CHIP_H)] :
        \A m \in DOMAIN mods : p[m][1] \in XRange(m) /\ p[m][2] \in YRange(m) }

(***************************************************************************)
(* cost(placement), in half units.                                         *)
(***************************************************************************)
\* line 90 with strict comparisons: touching rectangles collide.
Overlap_Touching(x1, y1, w1, h1, x2, y2, w2, h2) ==
    ~ (x1 + w1 < x2 \/ x2 + w2 < x1 \/ y1 + h1 < y2 \/ y2 + h2 < y1)

\* line 90: not (x1+w1 <= x2 or x2+w2 <= x1 or y1+h1 <= y2 or y2+h2 <= y1)
Overlap(x1, y1, w1, h1, x2, y2, w2, h2) ==
    ~ (x1 + w1 <= x2 \/ x2 + w2 <= x1 \/ y1 + h1 <= y2 \/ y2 + h2 <= y1)

\* lines 68-75: the loop over nets, from net k on.
RECURSIVE Wirelength(_, _)
Wirelength(p, k) ==
    IF k > Len(nets) THEN 0
    ELSE LET a  == nets[k][1]
             b  == nets[k][2]
             cax == 2 * p[a][1] + modules[a][1]
             cay == 2 * p[a][2] + modules[a][2]
             cbx == 2 * p[b][1] + modules[b][1]
             cby == 2 * p[b][2] + modules[b][2]
         IN  Abs(cax - cbx) + Abs(cay - cby) + Wirelength(p, k + 1)

\* lines 85-91: the inner loop, j from jj to len(mods_list).
RECURSIVE OverlapInner(_, _, _)
OverlapInner(p, ii, jj) ==
    LET ml == Keys(p) IN
    IF jj > Len(ml) THEN 0
    ELSE LET m1 == ml[ii]
             m2 == ml[jj]
         IN  (IF Overlap(p[m1][1], p[m1][2], modules[m1][1], modules[m1][2],
                         p[m2][1], p[m2][2], modules[m2][1], modules[m2][2])
              THEN 2 * Penalty ELSE 0)
             + OverlapInner(p, ii, jj + 1)

\* lines 80-91: the outer loop, i from ii to len(mods_list).
RECURSIVE OverlapOuter(_, _)
OverlapOuter(p, ii) ==
    IF ii > Len(Keys(p)) THEN 0
    ELSE OverlapInner(p, ii, ii + 1) + OverlapOuter(p, ii + 1)

\* cost without the overlap term.
cost_WirelengthOnly(p) == Wirelength(p, 1)

cost(p) == Wirelength(p, 1) + OverlapOuter(p, 1)

(***************************************************************************)
(* Floats of the form s * 2^e.                                             *)
(***************************************************************************)
Float(s, e) == [s |-> s, e |-> e]

FZero == Float(0, 0)

\* a * b in double precision: exact, or zero once below 2^-1074.
FloatMul(a, b) ==
    IF a.s * b.s = 0 THEN FZero
    ELSE IF a.e + b.e < MinExp THEN FZero
    ELSE Float(a.s * b.s, a.e + b.e)

\* random.random(): the least and the greatest float of [0, 1).
UDraws == {"min", "max"}

\* The position of the leading bit of n >= 1.
RECURSIVE Log2(_)
Log2(n) == IF n <= 1 THEN 0 ELSE 1 + Log2(n \div 2)

\* (c_old - c_new) / T overflows to an infinity: |d2 / 2| * 2^(-e) >= 2^1024.
QuotientInf(d2, t) == Log2(Abs(d2)) - 1 - t.e >= MaxFloatExp

\* math.exp((c_old - c_new) / T) for d2 = c_old - c_new in half units:
\* the error it raises, or the class of the float it returns.  Twice the
\* magnitude of the argument is |d2| * 2^(-e); beyond 2^ExpCap every
\* magnitude is past both thresholds of math.exp.
ExpOutcome(d2, t) ==
    LET twice == Abs(d2) * Pow2(IF -t.e > ExpCap THEN ExpCap ELSE -t.e)
        sgn   == IF d2 = 0 THEN 0 ELSE IF (d2 > 0) = (t.s > 0) THEN 1 ELSE -1
    IN  IF t.s = 0 THEN "ZeroDivisionError"
        ELSE IF sgn = 0 THEN "one"
        ELSE IF sgn > 0
             THEN IF QuotientInf(d2, t) THEN "above_one"
                  ELSE IF twice >= ExpOverflowTwice THEN "OverflowError"
                  ELSE "above_one"
             ELSE IF twice >= ExpZeroTwice THEN "zero" ELSE "below_one"

\* random.random() < math.exp(...), for a draw and a returned class.
DrawBelow(draw, cls) ==
    \/ cls \in {"one", "above_one"}
    \/ cls = "below_one" /\ draw = "min"

IsError(o) == o \in {"ZeroDivisionError", "OverflowError"}

(***************************************************************************)
(* The heap of dicts.                                                      *)
(***************************************************************************)
NoRef == 0
Refs == 1 .. 4
Free == <<>>

\* The lowest reference no variable holds.
Alloc(live) == CHOOSE r \in Refs : r \notin live /\ \A q \in Refs : q < r => q \in live

\* Reference counting: a dict no variable refers to is reclaimed.
GC(h, live) == [r \in Refs |-> IF r \in live THEN h[r] ELSE Free]

\* random_move without placement.copy(): the module is moved in the dict at p.
random_move_InPlace(h, p, fresh, m, x, y) ==
    [heap |-> [h EXCEPT ![p] = [h[p] EXCEPT ![m] = <<x, y>>]],
     ref  |-> p]

\* lines 105-112: copy the dict at p into the fresh object, move module m.
random_move(h, p, fresh, m, x, y) ==
    [heap |-> [h EXCEPT ![fresh] = [h[p] EXCEPT ![m] = <<x, y>>]],
     ref  |-> fresh]

(***************************************************************************)
(* simulated_annealing                                                     *)
(***************************************************************************)
\* T_start: -2^-600, 0.0, 1.0 and the smallest positive double.
TStartSet == {Float(-1, -600), FZero, Float(1, 0), Float(1, MinExp)}

\* cooling: 0 and 0.5.
CoolingSet == {FZero, Float(1, -1)}

MaxIterSet == {0, MaxIter}

Init ==
    /\ modules = CatalogOf({"A", "B"})
    /\ nets = NetsOf({"A", "B"})
    /\ max_iter \in MaxIterSet
    /\ T_start \in TStartSet
    /\ cooling \in CoolingSet
    /\ pc = "start"
    /\ err = "none"
    /\ heap = [r \in Refs |-> Free]
    /\ placement = NoRef
    /\ best = NoRef
    /\ new_place = NoRef
    /\ T = FZero
    /\ best_cost = -1
    /\ cost_history = <<>>
    /\ i = 0
    /\ c_old = -1
    /\ c_new = -1
    /\ u = "none"
    /\ initial_cost = -1
    /\ value = -1

\* lines 161-166
Initialize ==
    /\ pc = "start"
    /\ \E p \in random_placement(modules) :
         /\ heap' = [heap EXCEPT ![1] = p]
         /\ best_cost' = cost(p)
         /\ initial_cost' = cost(p)
    /\ placement' = 1
    /\ best' = 1
    /\ T' = T_start
    /\ cost_history' = <<>>
    /\ pc' = "loop"
    /\ UNCHANGED <<modules, nets, max_iter, T_start, cooling, err, new_place,
                   i, c_old, c_new, u, value>>

\* lines 168-169
RandomMove ==
    /\ pc = "loop"
    /\ i < max_iter
    /\ \E m \in DOMAIN modules : \E x \in XRange(m) : \E y \in YRange(m) :
         LET r == random_move(heap, placement,
                              Alloc({placement, best, new_place}), m, x, y)
         IN  /\ new_place' = r.ref
             /\ heap' = GC(r.heap, {placement, best, r.ref})
    /\ pc' = "accept"
    /\ UNCHANGED <<modules, nets, max_iter, T_start, cooling, err, placement,
                   best, T, best_cost, cost_history, i, c_old, c_new, u,
                   initial_cost, value>>

\* line 173 without `c_new < c_old or': the draw is always consulted.
NeedsDraw_Always(co, cn) == TRUE

\* line 173: is the right operand of `or' evaluated?
NeedsDraw(co, cn) == ~ (cn < co)

\* line 173: the value of the condition, for a draw that raised nothing.
Accepts(co, cn, t, draw) ==
    \/ cn < co
    \/ DrawBelow(draw, ExpOutcome(co - cn, t))

\* lines 170-174, when nothing raises
Accept ==
    /\ pc = "accept"
    /\ LET co == cost(heap[placement])
           cn == cost(heap[new_place])
       IN  /\ c_old' = co
           /\ c_new' = cn
           /\ \E draw \in UDraws :
                /\ NeedsDraw(co, cn) => ~ IsError(ExpOutcome(co - cn, T))
                /\ u' = IF NeedsDraw(co, cn) THEN draw ELSE "none"
                /\ placement' = IF Accepts(co, cn, T, draw) THEN new_place
                                ELSE placement
    /\ heap' = GC(heap, {placement', best, new_place})
    /\ pc' = "best"
    /\ UNCHANGED <<modules, nets, max_iter, T_start, cooling, err, best,
                   new_place, T, best_cost, cost_history, i, initial_cost, value>>

\* lines 170-173, when the division or math.exp raises
Raise ==
    /\ pc = "accept"
    /\ LET co == cost(heap[placement])
           cn == cost(heap[new_place])
       IN  /\ c_old' = co
           /\ c_new' = cn
           /\ NeedsDraw(co, cn)
           /\ IsError(ExpOutcome(co - cn, T))
           /\ err' = ExpOutcome(co - cn, T)
    /\ \E draw \in UDraws : u' = draw
    /\ pc' = "raised"
    /\ UNCHANGED <<modules, nets, max_iter, T_start, cooling, heap, placement,
                   best, new_place, T, best_cost, cost_history, i,
                   initial_cost, value>>

\* line 176 with `<=': an equally good current placement replaces the best.
Improves_OrEqual(c, bc) == c <= bc

\* line 176 without its condition: the best follows the current placement.
Improves_Always(c, bc) == TRUE

\* line 176: the condition of the best update.
Improves(c, bc) == c < bc

\* lines 176-181
UpdateBest ==
    /\ pc = "best"
    /\ LET c == cost(heap[placement])
       IN  /\ best' = IF Improves(c, best_cost) THEN placement ELSE best
           /\ best_cost' = IF Improves(c, best_cost) THEN c ELSE best_cost
    /\ cost_history' = Append(cost_history, best_cost')
    /\ T' = FloatMul(T, cooling)
    /\ i' = i + 1
    /\ heap' = GC(heap, {placement, best', new_place})
    /\ pc' = "loop"
    /\ UNCHANGED <<modules, nets, max_iter, T_start, cooling, err, placement,
                   new_place, c_old, c_new, u, initial_cost, value>>

\* lines 168, 183
Return ==
    /\ pc = "loop"
    /\ ~ (i < max_iter)
    /\ pc' = "done"
    /\ UNCHANGED <<modules, nets, max_iter, T_start, cooling, err, heap,
                   placement, best, new_place, T, best_cost, cost_history, i,
                   c_old, c_new, u, initial_cost, value>>

Next == Initialize \/ RandomMove \/ Accept \/ Raise \/ UpdateBest \/ Return

Spec == Init /\ [][Next]_vars

(***************************************************************************)
(* cost as a function of its argument: any placement of the three-module   *)
(* catalog is drawn, and cost is applied to it once.                       *)
(***************************************************************************)
InitCost ==
    /\ modules = CatalogOf({"A", "B", "C"})
    /\ nets = NetsOf({"A", "B", "C"})
    /\ max_iter = 0
    /\ T_start = FZero
    /\ cooling = FZero
    /\ pc = "cost_call"
    /\ err = "none"
    /\ \E p \in random_placement(modules) :
         heap = [r \in Refs |-> IF r = 1 THEN p ELSE Free]
    /\ placement = 1
    /\ best = NoRef
    /\ new_place = NoRef
    /\ T = FZero
    /\ best_cost = -1
    /\ cost_history = <<>>
    /\ i = 0
    /\ c_old = -1
    /\ c_new = -1
    /\ u = "none"
    /\ initial_cost = -1
    /\ value = -1

\* lines 54-92
EvalCost ==
    /\ pc = "cost_call"
    /\ value' = cost(heap[placement])
    /\ pc' = "cost_return"
    /\ UNCHANGED <<modules, nets, max_iter, T_start, cooling, err, heap,
                   placement, best, new_place, T, best_cost, cost_history, i,
                   c_old, c_new, u, initial_cost>>

NextCost == EvalCost

SpecCost == InitCost /\ [][NextCost]_vars

(***************************************************************************)
(* Vocabulary of the properties.                                           *)
(***************************************************************************)
Started == pc \in {"loop", "accept", "best", "done", "raised"}

Positive(f) == f.s > 0

\* f lies strictly between 0 and 1.
InOpenUnit(f) == f.s > 0 /\ f.e < 0

Fits == \A m \in DOMAIN modules : modules[m][1] <= CHIP_W /\ modules[m][2] <= CHIP_H

InBounds(p) ==
    /\ DOMAIN p = DOMAIN modules
    /\ \A m \in DOMAIN modules :
         /\ 0 <= p[m][1] /\ p[m][1] <= CHIP_W - modules[m][1]
         /\ 0 <= p[m][2] /\ p[m][2] <= CHIP_H - modules[m][2]

\* The rectangles of a and b intersect in more than an edge.
Intersect(p, a, b) ==
    /\ p[a][1] + modules[a][1] > p[b][1]
    /\ p[b][1] + modules[b][1] > p[a][1]
    /\ p[a][2] + modules[a][2] > p[b][2]
    /\ p[b][2] + modules[b][2] > p[a][2]

\* The rectangles of a and b share a piece of an edge and nothing more.
Touch(p, a, b) ==
    /\ ~ Intersect(p, a, b)
    /\ \/ /\ p[a][1] + modules[a][1] = p[b][1]
          /\ p[a][2] + modules[a][2] > p[b][2]
          /\ p[b][2] + modules[b][2] > p[a][2]
       \/ /\ p[a][2] + modules[a][2] = p[b][2]
          /\ p[a][1] + modules[a][1] > p[b][1]
          /\ p[b][1] + modules[b][1] > p[a][1]

CollidingPairs(p) ==
    { pr \in SUBSET DOMAIN p :
        /\ Cardinality(pr) = 2
        /\ \E a \in pr : \E b \in pr : a # b /\ Intersect(p, a, b) }

\* Twice the Manhattan distance between the centers of a and b.
CenterDistance(p, a, b) ==
    Abs((2 * p[a][1] + modules[a][1]) - (2 * p[b][1] + modules[b][1]))
    + Abs((2 * p[a][2] + modules[a][2]) - (2 * p[b][2] + modules[b][2]))

RECURSIVE SumOver(_, _)
SumOver(S, f) ==
    IF S = {} THEN 0
    ELSE LET k == CHOOSE k \in S : TRUE IN f[k] + SumOver(S \ {k}, f)

NetLength(p) ==
    SumOver(DOMAIN nets, [k \in DOMAIN nets |-> CenterDistance(p, nets[k][1], nets[k][2])])

NonIncreasing(h) == \A k \in 1 .. Len(h) - 1 : h[k + 1] <= h[k]

Placed(r) == r # NoRef /\ heap[r] # Free

Moved(p, q) == {m \in DOMAIN modules : p[m] # q[m]}

(***************************************************************************)
(* C1.  The best cost never gets worse: every history entry is at most     *)
(* the cost of the initial random placement, the history is                *)
(* non-increasing, and the returned best cost is at most the initial cost  *)
(* (equal to it when max_iter is 0, equal to the last history entry        *)
(* otherwise).                                                             *)
(***************************************************************************)
C1_BestNeverWorse ==
    Started =>
      /\ \A k \in 1 .. Len(cost_history) : cost_history[k] <= initial_cost
      /\ NonIncreasing(cost_history)
      /\ best_cost <= initial_cost
      /\ pc = "done" =>
           IF max_iter = 0 THEN best_cost = initial_cost /\ cost_history = <<>>
           ELSE best_cost = cost_history[Len(cost_history)]

\* A run has returned after the best cost improved strictly in each of two
\* iterations.
C1_Witness ==
    /\ pc = "done"
    /\ Len(cost_history) >= 2
    /\ cost_history[2] < cost_history[1]
    /\ cost_history[1] < initial_cost

(***************************************************************************)
(* C2.  With T_start > 0 and cooling in (0,1) the run raises nothing and   *)
(* returns after exactly max_iter iterations, with exactly max_iter        *)
(* history entries.                                                        *)
(***************************************************************************)
C2_TerminatesAfterMaxIter ==
    (Positive(T_start) /\ InOpenUnit(cooling)) =>
      /\ pc # "raised"
      /\ pc = "done" => i = max_iter /\ Len(cost_history) = max_iter

(***************************************************************************)
(* C3.  When every module fits on the surface, every placement that        *)
(* exists (current, best, candidate, and any other live dict) has exactly  *)
(* one entry per catalog module, each within the surface.                  *)
(***************************************************************************)
C3_PlacementsInBounds ==
    Fits =>
      /\ \A r \in Refs : heap[r] # Free => InBounds(heap[r])
      /\ \A r \in {placement, best, new_place} : r # NoRef => Placed(r)

\* Current, best and candidate are three dicts, and the candidate has a
\* module on the far edge of the surface in both directions.
C3_Witness ==
    /\ pc = "best"
    /\ Cardinality({placement, best, new_place}) = 3
    /\ \E m \in DOMAIN modules :
         heap[new_place][m] = <<CHIP_W - modules[m][1], CHIP_H - modules[m][2]>>

(***************************************************************************)
(* C4.  random_move returns a new dict that differs from its argument in   *)
(* at most one module's coordinates and leaves the argument as it was;     *)
(* and the coordinates of the best placement change only in the step that  *)
(* replaces it by a strictly cheaper current placement.                    *)
(***************************************************************************)
C4_MoveFrame ==
    [][ /\ (pc = "loop" /\ pc' = "accept") =>
             /\ new_place' # placement
             /\ placement' = placement
             /\ heap'[placement] = heap[placement]
             /\ Cardinality(Moved(heap'[new_place'], heap[placement])) <= 1
        /\ (Started /\ heap'[best'] # heap[best]) =>
             /\ pc = "best"
             /\ best' = placement
             /\ cost(heap[placement]) < best_cost
             /\ heap'[best'] = heap[placement]
      ]_vars

\* A candidate that moved one module has just been made from the current
\* placement, while the best placement is another dict with other
\* coordinates than the current one.
C4_Witness ==
    /\ pc = "accept"
    /\ i >= 1
    /\ best # placement
    /\ heap[best] # heap[placement]
    /\ Cardinality(Moved(heap[new_place], heap[placement])) = 1

(***************************************************************************)
(* C5.  In half units, cost(placement) is the sum over all nets (a, b) of  *)
(* the Manhattan distance between the centers of a and b, plus the         *)
(* penalty for every unordered pair of distinct modules whose rectangles   *)
(* satisfy x1+w1 > x2, x2+w2 > x1, y1+h1 > y2 and y2+h2 > y1; each pair    *)
(* counts once and rectangles that only touch add nothing.                 *)
(***************************************************************************)
C5_CostFormula ==
    pc = "cost_return" =>
      /\ InBounds(heap[placement])
      /\ value = NetLength(heap[placement])
                 + 2 * Penalty * Cardinality(CollidingPairs(heap[placement]))

\* cost has been applied to a placement with two colliding pairs and one
\* pair that touches along an edge, and a net between centers half a unit
\* apart in one direction.
C5_Witness ==
    /\ pc = "cost_return"
    /\ Cardinality(CollidingPairs(heap[placement])) = 2
    /\ \E a \in DOMAIN modules : \E b \in DOMAIN modules :
         a # b /\ Touch(heap[placement], a, b)
    /\ value = NetLength(heap[placement]) + 4 * Penalty
    /\ value % 2 = 1

(***************************************************************************)
(* C6.  With cooling 0 the temperature is 0 from the second iteration on,  *)
(* and from then on a candidate is accepted only when cost_new < cost_old, *)
(* nothing is divided by a zero temperature, and the run completes all     *)
(* max_iter iterations without raising.                                    *)
(***************************************************************************)
C6_CoolingZeroGreedy ==
    (cooling = FZero /\ Positive(T_start)) =>
      /\ (Started /\ i >= 1) => T = FZero
      /\ err # "ZeroDivisionError"
      /\ pc # "raised"
      /\ (pc = "best" /\ i >= 1 /\ placement = new_place) => c_new < c_old
      /\ pc = "done" => i = max_iter

(***************************************************************************)
(* C7.  A configuration error (a module larger than the surface, a net     *)
(* naming an unknown module, max_iter <= 0, T_start <= 0, cooling outside  *)
(* (0,1)) aborts the run before the first iteration: no iteration runs     *)
(* and nothing is returned.                                                *)
(***************************************************************************)
ConfigError ==
    \/ ~ Fits
    \/ \E k \in DOMAIN nets : nets[k][1] \notin DOMAIN modules \/ nets[k][2] \notin DOMAIN modules
    \/ max_iter <= 0
    \/ ~ Positive(T_start)
    \/ ~ InOpenUnit(cooling)

C7_ConfigErrorsAbort ==
    ConfigError => pc \notin {"accept", "best", "done"} /\ i = 0

(***************************************************************************)
(* C8.  The two-module scenario (catalog A, B; one net; positive T_start;  *)
(* cooling in (0,1); full iteration budget).                               *)
(***************************************************************************)
Scenario ==
    /\ modules = CatalogOf({"A", "B"})
    /\ nets = << <<"A", "B">> >>
    /\ max_iter = MaxIter
    /\ T_start = Float(1, 0)
    /\ cooling = Float(1, -1)

\* C8 as stated: the run returns with max_iter history entries, and a best
\* placement in which A and B do not overlap, whose cost is the wirelength.
C8_NoOverlapReturned ==
    Scenario =>
      /\ pc # "raised"
      /\ pc = "done" =>
           /\ Len(cost_history) = max_iter
           /\ ~ Intersect(heap[best], "A", "B")
           /\ best_cost = CenterDistance(heap[best], "A", "B")

\* C8 as amended: the run returns with max_iter history entries, and the
\* best cost is the wirelength between the centers of A and B at the
\* returned coordinates, plus the penalty when A and B overlap there.
C8_ReturnedCost ==
    Scenario =>
      /\ pc # "raised"
      /\ pc = "done" =>
           /\ Len(cost_history) = max_iter
           /\ best_cost = CenterDistance(heap[best], "A", "B")
                          + (IF Intersect(heap[best], "A", "B") THEN 2 * Penalty ELSE 0)

\* The scenario has returned a best placement in which A and B do not
\* overlap, cheaper than the initial placement and other than the current
\* placement.
C8_Witness ==
    /\ Scenario
    /\ pc = "done"
    /\ Len(cost_history) = MaxIter
    /\ ~ Intersect(heap[best], "A", "B")
    /\ best_cost < initial_cost
    /\ heap[best] # heap[placement]

(***************************************************************************)
(* C9.  In an iteration with T > 0 the current placement afterwards is     *)
(* the candidate or the previous current placement: the candidate          *)
(* whenever cost_new < cost_old, without a draw; and when                  *)
(* cost_new >= cost_old, the candidate exactly when the draw u is below    *)
(* exp((cost_old - cost_new)/T).  The exponential is evaluated only with   *)
(* an exponent <= 0 and raises nothing, and an equal-cost candidate is     *)
(* always accepted.                                                        *)
(***************************************************************************)
\* u < exp(d2 / 2 / t) for t > 0 and d2 <= 0: exp is 1.0 at 0, which every
\* draw is below; otherwise it is a float below 1.0, which the greatest
\* draw is not below and the least draw 0.0 is below unless exp returned 0.0.
BelowExp(draw, d2, t) ==
    \/ d2 = 0
    \/ d2 < 0 /\ draw = "min" /\ ~ (Abs(d2) * Pow2(IF -t.e > ExpCap THEN ExpCap ELSE -t.e) >= ExpZeroTwice)

C9_Metropolis ==
    [][ (pc = "accept" /\ Positive(T)) =>
          /\ pc' = "best"
          /\ c_old' = cost(heap[placement])
          /\ c_new' = cost(heap[new_place])
          /\ placement' \in {new_place, placement}
          /\ heap'[placement'] = heap[placement']
          /\ c_new' < c_old' => placement' = new_place /\ u' = "none"
          /\ c_new' >= c_old' =>
               /\ u' \in UDraws
               /\ placement' = new_place <=> BelowExp(u', c_old' - c_new', T)
          /\ u' # "none" => c_old' - c_new' <= 0
          /\ c_new' = c_old' => placement' = new_place
      ]_vars

\* An iteration with T > 0 has accepted a strictly more expensive candidate
\* on the least draw.
C9_Witness ==
    /\ pc = "best"
    /\ Positive(T)
    /\ u = "min"
    /\ c_new > c_old
    /\ placement = new_place

(***************************************************************************)
(* C10.  At the end of every iteration and at return, best_cost is the     *)
(* cost of the best placement recomputed from scratch and is at most the   *)
(* cost of the current placement; the best placement and the best cost     *)
(* change only in an iteration where the current placement's cost is       *)
(* strictly below the previous best cost, and then both change.            *)
(***************************************************************************)
C10_BestInSync ==
    /\ [](pc \in {"loop", "done"} =>
            /\ best_cost = cost(heap[best])
            /\ best_cost <= cost(heap[placement]))
    /\ [][ (Started /\ (best' # best \/ best_cost' # best_cost)) =>
             /\ pc = "best"
             /\ cost(heap[placement]) < best_cost
             /\ best' = placement /\ best' # best
             /\ best_cost' = cost(heap[placement]) /\ best_cost' # best_cost
         ]_vars

\* An iteration has ended with a current placement strictly more expensive
\* than the best one, which was found in an earlier iteration and is
\* strictly cheaper than the initial placement.
C10_Witness ==
    /\ pc = "loop"
    /\ i >= 2
    /\ best # placement
    /\ best_cost < cost(heap[placement])
    /\ best_cost < initial_cost
====
